---- MODULE Spec2Model ----
(***************************************************************************)
(* Model of graphql/utilities/ast_from_value.py: the type-directed         *)
(* conversion of a Python value into a GraphQL value AST node.             *)
(*                                                                         *)
(* Texts (Python str) are sequences of one-character strings, so that the  *)
(* integer formatting and the regular expression are computed, character   *)
(* by character, the way the code computes them.                           *)
(***************************************************************************)
EXTENDS Integers, Sequences, FiniteSets, TLC

\* value, type_: the arguments of the call; pc: "call" before it, "done" after;
\* result: what the call returned or raised; calls: the serialize calls it made
VARIABLES value, type_, pc, result, calls

vars == <<value, type_, pc, result, calls>>

---------------------------------------------------------------------------
(* Bounds of the model *)

\* longest text
MaxStrLen == 2
\* most elements of a list value
MaxLen == 2
\* most NonNull / List wrappers around a named type
MaxWrap == 2

---------------------------------------------------------------------------
(* Python values *)

None == [k |-> "None"]
INVALID == [k |-> "INVALID"]
NaN == [k |-> "NaN"]
VBool(b) == [k |-> "bool", b |-> b]
VInt(i) == [k |-> "int", i |-> i]
\* a float with one decimal digit, held in tenths: VFloat(15) is 1.5
VFloat(n) == [k |-> "float", tenths |-> n]
VStr(s) == [k |-> "str", s |-> s]
VList(xs) == [k |-> "list", xs |-> xs]
\* a dict keeps its insertion order: a sequence of entries with distinct keys
VDict(items) == [k |-> "dict", items |-> items]
Entry(key, val) == [key |-> key, val |-> val]

---------------------------------------------------------------------------
(* Type descriptors *)

GraphQLNonNull(t) == [shape |-> "NonNull", of_type |-> t]
GraphQLList(t) == [shape |-> "List", of_type |-> t]
\* fields: the ordered mapping name -> field, as a sequence in declaration order
GraphQLInputObjectType(fields) == [shape |-> "InputObject", fields |-> fields]
GraphQLInputField(name, t) == [name |-> name, type |-> t]
\* ser: what the type's serialize does with a value
GraphQLScalarType(name, ser) == [shape |-> "Scalar", name |-> name, ser |-> ser]
GraphQLEnumType(name, ser) == [shape |-> "Enum", name |-> name, ser |-> ser]
GraphQLID == GraphQLScalarType("ID", "same")
\* a type that is no input type: matches none of the shape predicates
GraphQLObjectType(name) == [shape |-> "Object", name |-> name]

is_non_null_type(t) == t.shape = "NonNull"
is_list_type(t) == t.shape = "List"
is_input_object_type(t) == t.shape = "InputObject"
is_scalar_type(t) == t.shape = "Scalar"
is_enum_type(t) == t.shape = "Enum"

---------------------------------------------------------------------------
(* AST nodes, the None result and a raised TypeError *)

PyNone == [kind |-> "None"]
NullValueNode == [kind |-> "NullValue"]
BooleanValueNode(b) == [kind |-> "BooleanValue", value |-> b]
IntValueNode(s) == [kind |-> "IntValue", value |-> s]
FloatValueNode(s) == [kind |-> "FloatValue", value |-> s]
StringValueNode(s) == [kind |-> "StringValue", value |-> s]
EnumValueNode(s) == [kind |-> "EnumValue", value |-> s]
ListValueNode(values) == [kind |-> "ListValue", values |-> values]
ObjectFieldNode(name, v) == [kind |-> "ObjectField", name |-> name, value |-> v]
ObjectValueNode(fields) == [kind |-> "ObjectValue", fields |-> fields]
\* raise TypeError(msg ... arg)
TypeError(msg, arg) == [kind |-> "TypeError", msg |-> msg, arg |-> arg]

IsRaised(r) == r.kind = "TypeError"

---------------------------------------------------------------------------
(* pyutils and the collaborators of the type system *)

is_invalid(v) == v = INVALID \/ v = NaN
is_nullish(v) == v = None \/ v = INVALID \/ v = NaN

\* type_.serialize(value)
serialize(t, v) ==
    CASE t.ser = "same" -> v
      [] t.ser = "none" -> None
      [] t.ser = "nan" -> NaN

\* bool(node): a node is an object without __bool__ or __len__
truthy(x) == x # PyNone

\* isinstance(value, Iterable)
is_iterable(v) == v.k \in {"str", "list", "dict"}
is_str(v) == v.k = "str"
\* isinstance(value, Mapping)
is_mapping(v) == v.k = "dict"

\* [item for item in value]: a list yields its elements, a dict its keys,
\* a str its characters
iter_items(v) ==
    IF v.k = "list" THEN v.xs
    ELSE IF v.k = "str" THEN [i \in 1..Len(v.s) |-> VStr(<<v.s[i]>>)]
    ELSE [i \in 1..Len(v.items) |-> VStr(<<v.items[i].key>>)]

\* field_name in value
has_key(v, name) == \E i \in 1..Len(v.items) : v.items[i].key = name
\* value[field_name]
get_item(v, name) ==
    v.items[CHOOSE i \in 1..Len(v.items) : v.items[i].key = name].val

---------------------------------------------------------------------------
(* Texts *)

Digits == <<"0", "1", "2", "3", "4", "5", "6", "7", "8", "9">>
IsDigit(c) == \E i \in 1..10 : Digits[i] = c
IsNonZeroDigit(c) == \E i \in 2..10 : Digits[i] = c

RECURSIVE NatStr(_)
NatStr(n) == IF n < 10 THEN <<Digits[n + 1]>>
             ELSE NatStr(n \div 10) \o <<Digits[(n % 10) + 1]>>

\* f"{serialized:d}"
format_d(i) == IF i < 0 THEN <<"-">> \o NatStr(-i) ELSE NatStr(i)

\* f"{serialized:g}" of a float of at most six significant digits
format_g(n) ==
    LET a == IF n < 0 THEN -n ELSE n
        sign == IF n < 0 THEN <<"-">> ELSE <<>>
        frac == IF a % 10 = 0 THEN <<>> ELSE <<".", Digits[(a % 10) + 1]>>
    IN  sign \o NatStr(a \div 10) \o frac

\* (0|[1-9][0-9]*) matched against the whole of s
match_digits(s) ==
    \/ s = <<"0">>
    \/ /\ Len(s) >= 1
       /\ IsNonZeroDigit(s[1])
       /\ \A i \in 2..Len(s) : IsDigit(s[i])

\* _re_integer_string.match(s) for the pattern "^-?(0|[1-9][0-9]*)$": Python's $
\* matches at the end of the string and also just before a newline that ends it
re_integer_string_match(s) ==
    LET t == IF Len(s) >= 1 /\ s[1] = "-" THEN Tail(s) ELSE s
    IN  \/ match_digits(t)
        \/ /\ Len(t) >= 1
           /\ t[Len(t)] = "\n"
           /\ match_digits(SubSeq(t, 1, Len(t) - 1))

---------------------------------------------------------------------------
(* ast_from_value *)

\* what a call gives back: the node, None or the raised error, with the
\* (type, value) pairs serialize was called on during the call
Ret(r, c) == [ret |-> r, calls |-> c]

NameNode(name) == [kind |-> "Name", value |-> name]

non_null_result_keeps_null(ast_value) == ast_value
\* the NonNull branch, after the recursive call on the wrapped type
non_null_result(ast_value) ==
    IF ast_value.kind = "NullValue" THEN PyNone ELSE ast_value

append_node_always(field_nodes, field_name, field_value) ==
    Append(field_nodes, ObjectFieldNode(NameNode(field_name), field_value))
\* if field_value: append_node(ObjectFieldNode(...))
append_node(field_nodes, field_name, field_value) ==
    IF truthy(field_value)
    THEN Append(field_nodes, ObjectFieldNode(NameNode(field_name), field_value))
    ELSE field_nodes

leaf_literal_nullish_raises(serialized, t) ==
    IF serialized.k = "bool" THEN BooleanValueNode(serialized.b)
    ELSE IF serialized.k = "int" THEN IntValueNode(format_d(serialized.i))
    ELSE IF serialized.k = "float" THEN FloatValueNode(format_g(serialized.tenths))
    ELSE IF serialized.k = "str" THEN
        IF is_enum_type(t) THEN EnumValueNode(serialized.s)
        ELSE IF t = GraphQLID /\ re_integer_string_match(serialized.s)
             THEN IntValueNode(serialized.s)
        ELSE StringValueNode(serialized.s)
    ELSE TypeError("Cannot convert value to AST", serialized)
\* the scalar / enum branch, after the call of serialize
leaf_literal(serialized, t) ==
    IF is_nullish(serialized) THEN PyNone
    ELSE IF serialized.k = "bool" THEN BooleanValueNode(serialized.b)
    ELSE IF serialized.k = "int" THEN IntValueNode(format_d(serialized.i))
    ELSE IF serialized.k = "float" THEN FloatValueNode(format_g(serialized.tenths))
    ELSE IF serialized.k = "str" THEN
        IF is_enum_type(t) THEN EnumValueNode(serialized.s)
        ELSE IF t = GraphQLID /\ re_integer_string_match(serialized.s)
             THEN IntValueNode(serialized.s)
        ELSE StringValueNode(serialized.s)
    ELSE TypeError("Cannot convert value to AST", serialized)

unknown_type_absent(t) == PyNone
\* raise TypeError(f"Unknown type: {type_!r}.")
unknown_type(t) == TypeError("Unknown type", t)

value_is_None_or_nullish(v) == is_nullish(v)
\* value is None
value_is_None(v) == v = None

is_list_value_any_iterable(v) == is_iterable(v)
\* isinstance(value, Iterable) and not isinstance(value, str)
is_list_value(v) == is_iterable(v) /\ ~is_str(v)

RECURSIVE ast_from_value(_, _)
RECURSIVE ast_from_value_late_null(_, _)
RECURSIVE value_nodes(_, _)
RECURSIVE value_nodes_filtered(_, _)
RECURSIVE field_nodes(_, _, _)

value_nodes_filtered(items, item_type) ==
    IF items = <<>> THEN [nodes |-> <<>>, err |-> PyNone, calls |-> {}]
    ELSE LET first == ast_from_value(Head(items), item_type)
         IN  IF IsRaised(first.ret)
             THEN [nodes |-> <<>>, err |-> first.ret, calls |-> first.calls]
             ELSE LET rest == value_nodes(Tail(items), item_type)
                  IN  [nodes |-> (IF first.ret = PyNone THEN <<>> ELSE <<first.ret>>)
                                    \o rest.nodes,
                       err |-> rest.err,
                       calls |-> first.calls \cup rest.calls]
\* [ast_from_value(item, item_type) for item in value]: the nodes in order, and
\* the error that ended the comprehension (PyNone when none did)
value_nodes(items, item_type) ==
    IF items = <<>> THEN [nodes |-> <<>>, err |-> PyNone, calls |-> {}]
    ELSE LET first == ast_from_value(Head(items), item_type)
         IN  IF IsRaised(first.ret)
             THEN [nodes |-> <<>>, err |-> first.ret, calls |-> first.calls]
             ELSE LET rest == value_nodes(Tail(items), item_type)
                  IN  [nodes |-> <<first.ret>> \o rest.nodes,
                       err |-> rest.err,
                       calls |-> first.calls \cup rest.calls]

\* for field_name, field in type_.fields.items(): ..., from the fields left to
\* visit and the field nodes appended so far
field_nodes(v, fields, acc) ==
    IF fields = <<>> THEN [nodes |-> acc, err |-> PyNone, calls |-> {}]
    ELSE LET field == Head(fields)
         IN  IF has_key(v, field.name)
             THEN LET field_value == ast_from_value(get_item(v, field.name), field.type)
                  IN  IF IsRaised(field_value.ret)
                      THEN [nodes |-> acc, err |-> field_value.ret,
                            calls |-> field_value.calls]
                      ELSE LET rest == field_nodes(v, Tail(fields),
                                           append_node(acc, field.name, field_value.ret))
                           IN  [rest EXCEPT !.calls = field_value.calls \cup @]
             ELSE field_nodes(v, Tail(fields), acc)

\* ast_from_value with the test for None made after the input object branch
ast_from_value_late_null(v, t) ==
    IF is_non_null_type(t) THEN
        LET ast_value == ast_from_value(v, t.of_type)
        IN  Ret(non_null_result(ast_value.ret), ast_value.calls)
    ELSE IF is_invalid(v) THEN Ret(PyNone, {})
    ELSE IF is_list_type(t) THEN
        IF is_list_value(v)
        THEN LET items == value_nodes(iter_items(v), t.of_type)
             IN  IF items.err # PyNone THEN Ret(items.err, items.calls)
                 ELSE Ret(ListValueNode(items.nodes), items.calls)
        ELSE ast_from_value(v, t.of_type)
    ELSE IF is_input_object_type(t) THEN
        IF value_is_None(v) \/ ~is_mapping(v) THEN Ret(PyNone, {})
        ELSE LET fs == field_nodes(v, t.fields, <<>>)
             IN  IF fs.err # PyNone THEN Ret(fs.err, fs.calls)
                 ELSE Ret(ObjectValueNode(fs.nodes), fs.calls)
    ELSE IF value_is_None(v) THEN Ret(NullValueNode, {})
    ELSE IF is_scalar_type(t) \/ is_enum_type(t) THEN
        Ret(leaf_literal(serialize(t, v), t), {[type_ |-> t, value |-> v]})
    ELSE Ret(unknown_type(t), {})
ast_from_value(v, t) ==
    IF is_non_null_type(t) THEN
        LET ast_value == ast_from_value(v, t.of_type)
        IN  Ret(non_null_result(ast_value.ret), ast_value.calls)
    ELSE IF value_is_None(v) THEN Ret(NullValueNode, {})
    ELSE IF is_invalid(v) THEN Ret(PyNone, {})
    ELSE IF is_list_type(t) THEN
        IF is_list_value(v)
        THEN LET items == value_nodes(iter_items(v), t.of_type)
             IN  IF items.err # PyNone THEN Ret(items.err, items.calls)
                 ELSE Ret(ListValueNode(items.nodes), items.calls)
        ELSE ast_from_value(v, t.of_type)
    ELSE IF is_input_object_type(t) THEN
        IF value_is_None(v) \/ ~is_mapping(v) THEN Ret(PyNone, {})
        ELSE LET fs == field_nodes(v, t.fields, <<>>)
             IN  IF fs.err # PyNone THEN Ret(fs.err, fs.calls)
                 ELSE Ret(ObjectValueNode(fs.nodes), fs.calls)
    ELSE IF is_scalar_type(t) \/ is_enum_type(t) THEN
        Ret(leaf_literal(serialize(t, v), t), {[type_ |-> t, value |-> v]})
    ELSE Ret(unknown_type(t), {})

---------------------------------------------------------------------------
(* The arguments the model calls ast_from_value with *)

SeqsUpTo(S, n) == UNION {[1..m -> S] : m \in 0..n}

Alphabet == {"-", "0", "7", "a", "\n"}
Texts == SeqsUpTo(Alphabet, MaxStrLen)
TextValues == {VStr(s) : s \in Texts}

Atoms == {None, INVALID, NaN, VBool(TRUE), VBool(FALSE), VInt(5), VInt(-7),
          VInt(120), VFloat(15), VFloat(-20), VStr(<<"a">>)}

Elems == {None, INVALID, VInt(1), VList(<<None>>), VDict(<<Entry("a", None)>>)}
ListValues == {VList(xs) : xs \in SeqsUpTo(Elems, MaxLen)}

Keys == {"a", "b"}
DictVals == {None, INVALID, VInt(1), VList(<<None>>)}
DictValues ==
    {VDict(items) : items \in
        {s \in SeqsUpTo({Entry(k, v) : k \in Keys, v \in DictVals}, Cardinality(Keys)) :
            \A i, j \in 1..Len(s) : i # j => s[i].key # s[j].key}}

Values == Atoms \cup ListValues \cup DictValues

AnyScalar == GraphQLScalarType("Any", "same")
LeafTypes == {GraphQLID, AnyScalar, GraphQLScalarType("Void", "none"),
              GraphQLScalarType("NotANumber", "nan"), GraphQLEnumType("Color", "same")}
UnknownType == GraphQLObjectType("Query")

FieldTypes == {AnyScalar, GraphQLNonNull(AnyScalar),
               GraphQLList(GraphQLNonNull(AnyScalar)), UnknownType}
InputObjectTypes ==
    {GraphQLInputObjectType(fs) : fs \in
        {s \in SeqsUpTo({GraphQLInputField(n, t) : n \in Keys, t \in FieldTypes},
                        Cardinality(Keys)) :
            \A i, j \in 1..Len(s) : i # j => s[i].name # s[j].name}}

NamedTypes == LeafTypes \cup {UnknownType} \cup InputObjectTypes

RECURSIVE Wrapped(_)
Wrapped(n) ==
    IF n = 0 THEN NamedTypes
    ELSE LET inner == Wrapped(n - 1)
         IN  inner \cup {GraphQLNonNull(t) : t \in inner} \cup {GraphQLList(t) : t \in inner}

Types == Wrapped(MaxWrap)

---------------------------------------------------------------------------
(* The state machine: one call of ast_from_value *)

Init ==
    /\ \/ value \in Values /\ type_ \in Types
       \/ value \in TextValues /\ type_ \in LeafTypes
    /\ pc = "call"
    /\ result = PyNone
    /\ calls = {}

Call ==
    /\ pc = "call"
    /\ LET r == ast_from_value(value, type_)
       IN  /\ result' = r.ret
           /\ calls' = r.calls
    /\ pc' = "done"
    /\ UNCHANGED <<value, type_>>

Next == Call

Spec == Init /\ [][Next]_vars

Done == pc = "done"
Returned == Done /\ ~IsRaised(result)

---------------------------------------------------------------------------
(* Properties *)

\* what ast_from_value returns (or raises) for v under t
Convert(v, t) == ast_from_value(v, t).ret

IsLeaf(t) == is_scalar_type(t) \/ is_enum_type(t)
Recognized(t) ==
    is_non_null_type(t) \/ is_list_type(t) \/ is_input_object_type(t) \/ IsLeaf(t)

\* C1: under a NonNull type the call never returns the Null node, and it returns
\* exactly what the wrapped type gives whenever that is None or a node other
\* than Null.
C1_NonNullNeverNull ==
    (Done /\ is_non_null_type(type_)) =>
        /\ result # NullValueNode
        /\ LET inner == Convert(value, type_.of_type)
           IN  (~IsRaised(inner) /\ inner # NullValueNode) => result = inner

C1_Witness ==
    /\ Done
    /\ value = None
    /\ type_ = GraphQLNonNull(AnyScalar)
    /\ result = PyNone

\* C2: the value None gives the Null node under every type that is not NonNull,
\* without any call of serialize, and gives None under every NonNull type.
C2_ExplicitNull ==
    (Done /\ value = None) =>
        IF is_non_null_type(type_)
        THEN result = PyNone
        ELSE result = NullValueNode /\ calls = {}

C2_Witness ==
    /\ Done
    /\ value = None
    /\ is_input_object_type(type_)
    /\ result = NullValueNode

\* what is neither None, nor invalid, nor an iterable other than a str
SingleValue(v) == v # None /\ ~is_invalid(v) /\ v.k \notin {"list", "dict"}

\* C3 as stated: a single value that the item type converts to a node gives,
\* under the List type, a List node that wraps that one node.
C3_SingleValueWrapped ==
    (Done /\ is_list_type(type_) /\ SingleValue(value)) =>
        LET item == Convert(value, type_.of_type)
        IN  (~IsRaised(item) /\ item # PyNone) => result = ListValueNode(<<item>>)

\* C3 amended: a single value under a List type gives what the item type gives
\* for it, not wrapped in a List node; under a List of a leaf type the result is
\* never a List node.
C3_SingleValueUnwrapped ==
    (Done /\ is_list_type(type_) /\ SingleValue(value)) =>
        /\ result = Convert(value, type_.of_type)
        /\ IsLeaf(type_.of_type) => result.kind # "ListValue"

C3_Witness ==
    /\ Done
    /\ value = VInt(5)
    /\ type_ = GraphQLList(AnyScalar)
    /\ result = IntValueNode(<<"5">>)

\* the declared fields of t that are keys of v and whose conversion is not None
KeptFields(v, t) ==
    SelectSeq(t.fields,
              LAMBDA f : has_key(v, f.name) /\ Convert(get_item(v, f.name), f.type) # PyNone)

\* C4: for an InputObject type and a dict, the Object node returned holds
\* exactly the declared fields that are keys of the dict and convert to a node,
\* each with its conversion, in the declaration order of the type.
C4_ObjectFields ==
    (Returned /\ is_input_object_type(type_) /\ is_mapping(value)) =>
        LET kept == KeptFields(value, type_)
        IN  result = ObjectValueNode(
                [i \in 1..Len(kept) |->
                    ObjectFieldNode(NameNode(kept[i].name),
                                    Convert(get_item(value, kept[i].name), kept[i].type))])

\* declared a then b, given b then a with an invalid b: a alone is kept
C4_Witness ==
    /\ Done
    /\ type_ = GraphQLInputObjectType(<<GraphQLInputField("a", AnyScalar),
                                        GraphQLInputField("b", GraphQLNonNull(AnyScalar))>>)
    /\ value = VDict(<<Entry("b", None), Entry("a", VInt(1))>>)
    /\ result = ObjectValueNode(<<ObjectFieldNode(NameNode("a"), IntValueNode(<<"1">>))>>)

\* an optional '-', then '0' or a non-zero digit followed by digits, nothing else
IntegerLiteral(s) ==
    LET t == IF Len(s) >= 1 /\ s[1] = "-" THEN Tail(s) ELSE s
    IN  \/ t = <<"0">>
        \/ Len(t) >= 1 /\ IsNonZeroDigit(t[1]) /\ \A i \in 2..Len(t) : IsDigit(t[i])

\* C5: a str under ID gives Int with that text exactly when the whole text is
\* an integer literal and String otherwise; under any other scalar whose
\* serialize gives the str back it gives String.
C5_IDIntegerLiteral ==
    (Done /\ is_str(value)) =>
        /\ type_ = GraphQLID =>
              result = IF IntegerLiteral(value.s) THEN IntValueNode(value.s)
                       ELSE StringValueNode(value.s)
        /\ type_ = AnyScalar => result = StringValueNode(value.s)

RECURSIVE SubTypes(_)
\* the type descriptors a type is made of
SubTypes(t) ==
    {t} \cup
    (IF is_non_null_type(t) \/ is_list_type(t) THEN SubTypes(t.of_type)
     ELSE IF is_input_object_type(t)
          THEN UNION {SubTypes(t.fields[i].type) : i \in 1..Len(t.fields)}
          ELSE {})

\* C6: a TypeError comes only from a serialize call of this conversion whose
\* result was neither nullish nor a bool, int, float or str, or from an
\* unrecognized type descriptor of the type; an invalid value, a value that is
\* no mapping under an InputObject type, a nullish serialize result and a Null
\* under NonNull give None.
C6_OnlyTwoErrors ==
    Done =>
        /\ IsRaised(result) =>
              \/ /\ result.msg = "Cannot convert value to AST"
                 /\ ~is_nullish(result.arg)
                 /\ result.arg.k \notin {"bool", "int", "float", "str"}
                 /\ \E c \in calls : serialize(c.type_, c.value) = result.arg
              \/ /\ result.msg = "Unknown type"
                 /\ result.arg \in SubTypes(type_)
                 /\ ~Recognized(result.arg)
        /\ is_invalid(value) => result = PyNone
        /\ (is_input_object_type(type_) /\ value # None /\ ~is_mapping(value)) =>
              result = PyNone
        /\ (IsLeaf(type_) /\ value # None /\ is_nullish(serialize(type_, value))) =>
              result = PyNone
        /\ (is_non_null_type(type_) /\ Convert(value, type_.of_type) = NullValueNode) =>
              result = PyNone

\* a dict reaches a scalar whose serialize gives it back: the call raises
C6_Witness ==
    /\ Done
    /\ type_ = GraphQLNonNull(AnyScalar)
    /\ value = VDict(<<>>)
    /\ result = TypeError("Cannot convert value to AST", VDict(<<>>))
    /\ calls = {[type_ |-> AnyScalar, value |-> VDict(<<>>)]}

\* C7 as stated: every value under an unrecognized type descriptor raises
\* TypeError "Unknown type".
C7_UnknownTypeAlwaysRaises ==
    (Done /\ ~Recognized(type_)) => result = TypeError("Unknown type", type_)

\* C7 amended: every value other than None and the invalid values raises
\* TypeError "Unknown type" under an unrecognized type descriptor; None gives
\* the Null node and an invalid value gives None.
C7_UnknownTypeRaises ==
    (Done /\ ~Recognized(type_)) =>
        result = IF value = None THEN NullValueNode
                 ELSE IF is_invalid(value) THEN PyNone
                 ELSE TypeError("Unknown type", type_)

C7_Witness ==
    /\ Done
    /\ type_ = UnknownType
    /\ value = VInt(5)
    /\ IsRaised(result)

\* C8: an invalid value gives None under every type, without any call of
\* serialize, and so differs from what None gives under a type that is not
\* NonNull.
C8_InvalidAbsent ==
    (Done /\ is_invalid(value)) =>
        /\ result = PyNone
        /\ calls = {}
        /\ ~is_non_null_type(type_) => result # Convert(None, type_)

C8_Witness ==
    /\ Done
    /\ value = NaN
    /\ type_ = GraphQLList(AnyScalar)
    /\ result = PyNone

\* C9: a list or dict under a List type gives a List node with one item per
\* element, item i being the conversion of element i under the item type, a
\* None result staying at its position.
C9_ListPositional ==
    (Returned /\ is_list_type(type_) /\ value # None /\ value.k \in {"list", "dict"}) =>
        LET items == IF value.k = "list" THEN value.xs
                     ELSE [i \in 1..Len(value.items) |-> VStr(<<value.items[i].key>>)]
        IN  /\ result.kind = "ListValue"
            /\ Len(result.values) = Len(items)
            /\ \A i \in 1..Len(items) :
                  result.values[i] = Convert(items[i], type_.of_type)

C9_Witness ==
    /\ Done
    /\ type_ = GraphQLList(AnyScalar)
    /\ value = VList(<<VInt(1), INVALID>>)
    /\ result = ListValueNode(<<IntValueNode(<<"1">>), PyNone>>)

RECURSIVE NullFree(_, _, _)
\* no Null node in n, the result for v under t, at a position whose type is NonNull
NullFree(n, v, t) ==
    IF n = PyNone THEN TRUE
    ELSE IF is_non_null_type(t) THEN n # NullValueNode /\ NullFree(n, v, t.of_type)
    ELSE IF v = None THEN TRUE
    ELSE IF is_list_type(t) THEN
        IF v.k \in {"list", "dict"}
        THEN \A i \in 1..Len(n.values) :
                NullFree(n.values[i], iter_items(v)[i], t.of_type)
        ELSE NullFree(n, v, t.of_type)
    ELSE IF is_input_object_type(t) THEN
        \A i \in 1..Len(n.fields) :
            \E j \in 1..Len(t.fields) :
                /\ t.fields[j].name = n.fields[i].name.value
                /\ NullFree(n.fields[i].value, get_item(v, t.fields[j].name),
                            t.fields[j].type)
    ELSE TRUE

\* C10: in a returned node no Null node stands at a position (top level, list
\* item, object field value, at any depth) whose type is NonNull.
C10_NoNullUnderNonNull ==
    Returned => NullFree(result, value, type_)

C10_Witness ==
    /\ Done
    /\ type_ = GraphQLList(GraphQLNonNull(AnyScalar))
    /\ value = VList(<<None, VInt(1)>>)
    /\ result = ListValueNode(<<PyNone, IntValueNode(<<"1">>)>>)

====
